---- MODULE Spec2Model ----
(***************************************************************************)
(* Model of system_monitor.py: SystemMonitor.__init__, _load_config,       *)
(* format_usage_report, get_resource_usage, check_resources, send_alert and *)
(* main with its loop, its output redirection and its exit.                *)
(*                                                                         *)
(* Time is in seconds.  datetime.min is the origin of the time axis; the   *)
(* wall clock (datetime.now()) reads StartTime when the process starts.    *)
(* Percentages are integers around the threshold values.                   *)
(***************************************************************************)
EXTENDS Integers, FiniteSets, Sequences, TLC

\* ---------------------------------------------------------------- bounds
MaxTicks == 2          \* ticks of the loop that are explored
StartTime == 4000      \* datetime.now() at process start, seconds after datetime.min
HugeCooldown == 5000   \* a configured alert_cooldown longer than the time since datetime.min
MaxGap == 1            \* seconds between the two datetime.now() calls of one tick

\* ------------------------------------------------------- program constants
DatetimeMin == 0           \* datetime.min, the 'never alerted' sentinel
DefaultThreshold == 80     \* _load_config fallback thresholds
DefaultInterval == 300     \* self.config.get('interval', 300)
DefaultCooldown == 3600    \* self.config.get('alert_cooldown', 3600)
CpuSampleWindow == 1       \* psutil.cpu_percent(interval=1) blocks one second

Metrics == {"cpu", "memory", "disk"}

\* the if-blocks with memory ahead of cpu
MetricOrderMemoryFirst == <<"memory", "cpu", "disk">>

\* the order of the three if-blocks of check_resources
MetricOrder == <<"cpu", "memory", "disk">>

\* ------------------------------------------------------------------ inputs
\* sampled percentages: with the thresholds below, each of below, equal to and
\* above the threshold occurs
Percent == {DefaultThreshold, DefaultThreshold + 1}

DefaultThresholds == [m \in Metrics |-> DefaultThreshold]

CustomThresholds ==
    [m \in Metrics |-> CASE m = "cpu" -> DefaultThreshold - 1
                         [] m = "memory" -> DefaultThreshold
                         [] OTHER -> DefaultThreshold + 1]

DefaultEmail == "placeholder"

\* interval values a configuration document may carry (-1: a value time.sleep rejects)
ConfigIntervals == {1, -1}

\* alert_cooldown values a configuration document may carry: numbers of
\* seconds, none negative; HugeCooldown stands for a window longer than the
\* time since datetime.min (such as .inf)
ConfigCooldowns == {0, 2, HugeCooldown}

\* documents yaml.safe_load can return: complete mappings, mappings without the
\* optional keys, mappings lacking a required section, and None (empty file)
ParsedDocs ==
    {[thresholds |-> CustomThresholds, email |-> "configured",
      interval |-> i, alert_cooldown |-> c] : i \in ConfigIntervals, c \in ConfigCooldowns}
    \cup {[thresholds |-> DefaultThresholds, email |-> "configured"]}
    \cup {[email |-> "configured", interval |-> 1]}
    \cup {[thresholds |-> CustomThresholds, interval |-> 1]}
    \cup {[none |-> TRUE]}

\* what the path given by --config holds
ConfigFiles ==
    {[kind |-> "absent"], [kind |-> "unreadable"], [kind |-> "unparseable"]}
    \cup {[kind |-> "parsed", doc |-> d] : d \in ParsedDocs}

NoArg == -999              \* args.interval is None
ArgIntervals == {NoArg, 0, 2}

\* args.output: not given, a path open(path, 'a') can open, a path it cannot
OutputArgs == {"none", "writable", "unwritable"}

\* ------------------------------------------------------------------- state
VARIABLES
    config_file,      \* what the file named by args.config holds
    args_interval,    \* args.interval
    args_output,      \* args.output
    console_file,     \* monitor.console.file: stdout or output_file
    output_file,      \* the file object of main: unopened, open, closed
    report,           \* the report printed in this tick and the sink it went to
    attempts,         \* per metric, the number of send_alert calls of this tick
    signal_at,        \* where the process was when KeyboardInterrupt was delivered, or none
    exit_status,      \* exit status of the process, NoStatus while it runs
    pc,               \* position of the process: new, sample, report, evaluate, send, sleep, stopped
    thresholds,       \* self.thresholds
    email_config,     \* self.email_config
    interval,         \* monitor.interval
    alert_cooldown,   \* self.alert_cooldown
    last_alert_time,  \* self.last_alert_time
    now,              \* the wall clock read by datetime.now()
    usage,            \* local usage of check_resources
    current_time,     \* local current_time of check_resources
    idx,              \* which if-block of check_resources is under way (1..3)
    tick,             \* number of the current iteration of while True
    reported,         \* the report of this tick was printed
    delivery,         \* per metric, the send_alert call of this tick: none, attempting, sent, failed
    tick_start_last,  \* last_alert_time as it was when this tick began
    ever_breached,    \* metrics that were in breach in the sample of an earlier tick
    log,              \* log records emitted in this tick (at startup: during startup)
    exit_reason       \* running, interrupted, error

vars == <<config_file, args_interval, args_output, console_file, output_file,
          report, attempts, signal_at, exit_status, pc, thresholds, email_config, interval,
          alert_cooldown, last_alert_time, now, usage, current_time, idx, tick,
          reported, delivery, tick_start_last, ever_breached, log, exit_reason>>

\* what no step of the loop assigns
inputs == <<config_file, args_interval, args_output>>

\* the output sink of main
sink == <<console_file, output_file>>

NoUsage == [cpu_percent |-> -1, memory_percent |-> -1, disk_percent |-> -1, timestamp |-> -1]
NoTime == -1
NoDelivery == [m \in Metrics |-> "none"]
NoReport == [sink |-> "none", status |-> [m \in Metrics |-> "none"]]
NoAttempts == [m \in Metrics |-> 0]
NoStatus == -1             \* the process has not exited
ExitSuccess == 0           \* main returns normally

\* ----------------------------------------------------------- pure helpers

\* _load_config: open + yaml.safe_load, or the built-in fallback on any exception
load_config(file) ==
    IF file.kind = "parsed"
    THEN file.doc
    ELSE [thresholds |-> DefaultThresholds, email |-> DefaultEmail]

\* _load_config logs an error when it falls back
load_config_log(file) ==
    IF file.kind = "parsed" THEN {} ELSE {"Failed to load config"}

\* dict.get(key, default)
Get(d, key, default) == IF key \in DOMAIN d THEN d[key] ELSE default

\* __init__ raises (KeyError / TypeError) when a required section is missing
InitRaises(config) == ~("thresholds" \in DOMAIN config /\ "email" \in DOMAIN config)

\* main: if args.interval: monitor.interval = args.interval
OverrideInterval(configured, arg) ==
    IF arg # NoArg /\ arg # 0 THEN arg ELSE configured

\* the metric value of a sample
ValueOf(u, m) ==
    CASE m = "cpu" -> u.cpu_percent
      [] m = "memory" -> u.memory_percent
      [] OTHER -> u.disk_percent

\* the comparison with >= in place of >
BreachedAtThreshold(u, th, m) == ValueOf(u, m) >= th[m]

\* usage.<metric>_percent > self.thresholds[<metric>]
Breached(u, th, m) == ValueOf(u, m) > th[m]

\* the cooldown comparison with >= in place of >
CooldownPassedAtWindow(t, last, cooldown) == t - last >= cooldown

\* the cooldown comparison one second late
CooldownPassedLate(t, last, cooldown) == t - last > cooldown + 1

\* (current_time - self.last_alert_time[m]).total_seconds() > self.alert_cooldown
CooldownPassed(t, last, cooldown) == t - last > cooldown

\* a report whose status column compares with >= in place of >
format_usage_report_at_threshold(u, th) ==
    [cpu |-> IF u.cpu_percent >= th["cpu"] THEN "ALERT" ELSE "OK",
     memory |-> IF u.memory_percent >= th["memory"] THEN "ALERT" ELSE "OK",
     disk |-> IF u.disk_percent >= th["disk"] THEN "ALERT" ELSE "OK"]

\* format_usage_report: the status column of the three lines of the report
format_usage_report(u, th) ==
    [cpu |-> IF u.cpu_percent > th["cpu"] THEN "ALERT" ELSE "OK",
     memory |-> IF u.memory_percent > th["memory"] THEN "ALERT" ELSE "OK",
     disk |-> IF u.disk_percent > th["disk"] THEN "ALERT" ELSE "OK"]

\* main lines 218-222: the finally clause around the loop
FinallyConsole == IF args_output # "none" THEN "stdout" ELSE console_file
FinallyFile == IF args_output # "none" THEN "closed" ELSE output_file

\* time.sleep(secs) raises ValueError for a negative length
SleepRaises(secs) == secs < 0

\* last-alert times that start at the time of construction
InitialLastAlertNow == [m \in Metrics |-> StartTime]

\* __init__ lines 41-45: every metric starts at datetime.min
InitialLastAlert == [m \in Metrics |-> DatetimeMin]

\* ------------------------------------------------------------------- Init
Init ==
    /\ config_file \in ConfigFiles
    /\ args_interval \in ArgIntervals
    /\ args_output \in OutputArgs
    /\ console_file = "stdout"
    /\ output_file = "unopened"
    /\ report = NoReport
    /\ attempts = NoAttempts
    /\ signal_at = "none"
    /\ exit_status = NoStatus
    /\ pc = "new"
    /\ thresholds = DefaultThresholds
    /\ email_config = DefaultEmail
    /\ interval = DefaultInterval
    /\ alert_cooldown = DefaultCooldown
    /\ last_alert_time = InitialLastAlert
    /\ now = StartTime
    /\ usage = NoUsage
    /\ current_time = NoTime
    /\ idx = 1
    /\ tick = 0
    /\ reported = FALSE
    /\ delivery = NoDelivery
    /\ tick_start_last = InitialLastAlert
    /\ ever_breached = {}
    /\ log = {}
    /\ exit_reason = "running"

\* ---------------------------------------------------------------- actions

\* main lines 196-206 with SystemMonitor.__init__: load the configuration, read
\* the sections, apply the interval override; an exception ends main.
Construct ==
    /\ pc = "new"
    /\ LET file == config_file
           arg == args_interval
           config == load_config(file) IN
       IF InitRaises(config)
       THEN /\ pc' = "stopped"
            /\ exit_reason' = "error"
            /\ exit_status' = ExitSuccess
            /\ log' = load_config_log(file) \cup {"Monitoring stopped due to error"}
            /\ UNCHANGED <<thresholds, email_config, interval, alert_cooldown, tick, sink>>
       ELSE /\ thresholds' = config.thresholds
            /\ email_config' = config.email
            /\ interval' = OverrideInterval(Get(config, "interval", DefaultInterval), arg)
            /\ alert_cooldown' = Get(config, "alert_cooldown", DefaultCooldown)
            /\ IF args_output = "unwritable"
               THEN \* open(args.output, 'a') raises before the loop is entered
                    /\ pc' = "stopped"
                    /\ exit_reason' = "error"
                    /\ exit_status' = ExitSuccess
                    /\ log' = load_config_log(file)
                                 \cup {"Starting system monitoring",
                                       "Monitoring stopped due to error"}
                    /\ UNCHANGED <<tick, sink>>
               ELSE /\ pc' = "sample"
                    /\ tick' = 1
                    /\ log' = load_config_log(file) \cup {"Starting system monitoring"}
                    /\ console_file' = IF args_output = "writable" THEN "output_file"
                                                                    ELSE console_file
                    /\ output_file' = IF args_output = "writable" THEN "open"
                                                                   ELSE output_file
                    /\ UNCHANGED <<exit_reason, exit_status>>
    /\ UNCHANGED <<last_alert_time, now, usage, current_time, idx, reported,
                   delivery, tick_start_last, ever_breached, inputs,
                   report, attempts, signal_at>>

\* get_resource_usage succeeds: one second of cpu measurement, then the timestamp
SampleOk(c, m, d) ==
    /\ pc = "sample"
    /\ now' = now + CpuSampleWindow
    /\ usage' = [cpu_percent |-> c, memory_percent |-> m, disk_percent |-> d,
                 timestamp |-> now']
    /\ pc' = "report"
    /\ UNCHANGED <<inputs, ever_breached, thresholds, email_config, interval,
                   alert_cooldown, last_alert_time,
                   current_time, idx, tick, reported, delivery, tick_start_last,
                   log, exit_reason>>
    /\ UNCHANGED <<sink, report, attempts, signal_at, exit_status>>

\* get_resource_usage raises: logged there, re-raised, logged by check_resources
SampleFail ==
    /\ pc = "sample"
    /\ log' = log \cup {"Failed to get resource usage", "Error in check_resources"}
    /\ pc' = "sleep"
    /\ UNCHANGED <<inputs, ever_breached, thresholds, email_config, interval,
                   alert_cooldown, last_alert_time,
                   now, usage, current_time, idx, tick, reported, delivery,
                   tick_start_last, exit_reason>>
    /\ UNCHANGED <<sink, report, attempts, signal_at, exit_status>>

\* lines 117-121: format and print the report, then read the clock again
ReportOk(gap) ==
    /\ pc = "report"
    /\ reported' = TRUE
    /\ now' = now + gap
    /\ current_time' = now'
    /\ idx' = 1
    /\ pc' = "evaluate"
    /\ UNCHANGED <<inputs, ever_breached, thresholds, email_config, interval,
                   alert_cooldown, last_alert_time,
                   usage, tick, delivery, tick_start_last, log, exit_reason>>
    /\ report' = [sink |-> console_file, status |-> format_usage_report(usage, thresholds)]
    /\ UNCHANGED <<sink, attempts, signal_at, exit_status>>

\* formatting or console.print raises: caught by check_resources
ReportFail ==
    /\ pc = "report"
    /\ log' = log \cup {"Error in check_resources"}
    /\ pc' = "sleep"
    /\ UNCHANGED <<inputs, ever_breached, thresholds, email_config, interval,
                   alert_cooldown, last_alert_time,
                   now, usage, current_time, idx, tick, reported, delivery,
                   tick_start_last, exit_reason>>
    /\ UNCHANGED <<sink, report, attempts, signal_at, exit_status>>

\* the metrics in breach in the sample of this tick
BreachedNow == {m \in Metrics : usage # NoUsage /\ Breached(usage, thresholds, m)}

\* where control goes after the if-block number i
AfterBlock(i) == IF i < Len(MetricOrder) THEN "evaluate" ELSE "sleep"

\* one of the three if-blocks of lines 123-139, up to the call of send_alert
Evaluate ==
    /\ pc = "evaluate"
    /\ LET m == MetricOrder[idx] IN
       IF /\ Breached(usage, thresholds, m)
          /\ CooldownPassed(current_time, last_alert_time[m], alert_cooldown)
       THEN /\ pc' = "send"
            /\ delivery' = [delivery EXCEPT ![m] = "attempting"]
            /\ attempts' = [attempts EXCEPT ![m] = @ + 1]
            /\ UNCHANGED idx
       ELSE /\ pc' = AfterBlock(idx)
            /\ idx' = IF idx < Len(MetricOrder) THEN idx + 1 ELSE idx
            /\ UNCHANGED <<delivery, attempts>>
    /\ UNCHANGED <<inputs, ever_breached, thresholds, email_config, interval,
                   alert_cooldown, last_alert_time,
                   now, usage, current_time, tick, reported, tick_start_last,
                   log, exit_reason>>
    /\ UNCHANGED <<sink, report, signal_at, exit_status>>

\* send_alert followed by an assignment made only after a delivery
SendDoneRecordOnSuccess(ok) ==
    /\ pc = "send"
    /\ LET m == MetricOrder[idx] IN
       /\ delivery' = [delivery EXCEPT ![m] = IF ok THEN "sent" ELSE "failed"]
       /\ log' = log \cup {IF ok THEN "Alert sent" ELSE "Failed to send alert"}
       /\ last_alert_time' = IF ok THEN [last_alert_time EXCEPT ![m] = current_time]
                                    ELSE last_alert_time
    /\ pc' = AfterBlock(idx)
    /\ idx' = IF idx < Len(MetricOrder) THEN idx + 1 ELSE idx
    /\ UNCHANGED <<inputs, ever_breached, thresholds, email_config, interval,
                   alert_cooldown, now, usage,
                   current_time, tick, reported, tick_start_last, exit_reason>>
    /\ UNCHANGED <<sink, report, attempts, signal_at, exit_status>>

\* send_alert followed by an assignment of the sample's timestamp
SendDoneSampleTimestamp(ok) ==
    /\ pc = "send"
    /\ LET m == MetricOrder[idx] IN
       /\ delivery' = [delivery EXCEPT ![m] = IF ok THEN "sent" ELSE "failed"]
       /\ log' = log \cup {IF ok THEN "Alert sent" ELSE "Failed to send alert"}
       /\ last_alert_time' = [last_alert_time EXCEPT ![m] = usage.timestamp]
    /\ pc' = AfterBlock(idx)
    /\ idx' = IF idx < Len(MetricOrder) THEN idx + 1 ELSE idx
    /\ UNCHANGED <<inputs, ever_breached, thresholds, email_config, interval,
                   alert_cooldown, now, usage,
                   current_time, tick, reported, tick_start_last, exit_reason>>
    /\ UNCHANGED <<sink, report, attempts, signal_at, exit_status>>

\* a failed send_alert that sends the if-block round again
SendDoneRetryOnFailure(ok) ==
    /\ pc = "send"
    /\ LET m == MetricOrder[idx] IN
       /\ delivery' = [delivery EXCEPT ![m] = IF ok THEN "sent" ELSE "failed"]
       /\ log' = log \cup {IF ok THEN "Alert sent" ELSE "Failed to send alert"}
       /\ last_alert_time' = IF ok THEN [last_alert_time EXCEPT ![m] = current_time]
                                    ELSE last_alert_time
    /\ pc' = IF ok THEN AfterBlock(idx) ELSE "evaluate"
    /\ idx' = IF ok /\ idx < Len(MetricOrder) THEN idx + 1 ELSE idx
    /\ UNCHANGED <<inputs, ever_breached, thresholds, email_config, interval,
                   alert_cooldown, now, usage,
                   current_time, tick, reported, tick_start_last, exit_reason>>
    /\ UNCHANGED <<sink, report, attempts, signal_at, exit_status>>

\* a send_alert that lets its failure escape to the handler of check_resources
SendDoneAbortOnFailure(ok) ==
    /\ pc = "send"
    /\ LET m == MetricOrder[idx] IN
       /\ delivery' = [delivery EXCEPT ![m] = IF ok THEN "sent" ELSE "failed"]
       /\ log' = log \cup (IF ok THEN {"Alert sent"}
                                 ELSE {"Failed to send alert", "Error in check_resources"})
       /\ last_alert_time' = IF ok THEN [last_alert_time EXCEPT ![m] = current_time]
                                    ELSE last_alert_time
    /\ pc' = IF ok THEN AfterBlock(idx) ELSE "sleep"
    /\ idx' = IF ok /\ idx < Len(MetricOrder) THEN idx + 1 ELSE idx
    /\ UNCHANGED <<inputs, ever_breached, thresholds, email_config, interval,
                   alert_cooldown, now, usage,
                   current_time, tick, reported, tick_start_last, exit_reason>>
    /\ UNCHANGED <<sink, report, attempts, signal_at, exit_status>>

\* an assignment after send_alert that restarts the cooldown of every metric
SendDoneResetAll(ok) ==
    /\ pc = "send"
    /\ LET m == MetricOrder[idx] IN
       /\ delivery' = [delivery EXCEPT ![m] = IF ok THEN "sent" ELSE "failed"]
       /\ log' = log \cup {IF ok THEN "Alert sent" ELSE "Failed to send alert"}
       /\ last_alert_time' = [n \in Metrics |-> current_time]
    /\ pc' = AfterBlock(idx)
    /\ idx' = IF idx < Len(MetricOrder) THEN idx + 1 ELSE idx
    /\ UNCHANGED <<inputs, ever_breached, thresholds, email_config, interval,
                   alert_cooldown, now, usage,
                   current_time, tick, reported, tick_start_last, exit_reason>>
    /\ UNCHANGED <<sink, report, attempts, signal_at, exit_status>>

\* an assignment after send_alert that records the end of the cooldown window
SendDoneRecordExpiry(ok) ==
    /\ pc = "send"
    /\ LET m == MetricOrder[idx] IN
       /\ delivery' = [delivery EXCEPT ![m] = IF ok THEN "sent" ELSE "failed"]
       /\ log' = log \cup {IF ok THEN "Alert sent" ELSE "Failed to send alert"}
       /\ last_alert_time' = [last_alert_time EXCEPT ![m] = current_time + alert_cooldown]
    /\ pc' = AfterBlock(idx)
    /\ idx' = IF idx < Len(MetricOrder) THEN idx + 1 ELSE idx
    /\ UNCHANGED <<inputs, ever_breached, thresholds, email_config, interval,
                   alert_cooldown, now, usage,
                   current_time, tick, reported, tick_start_last, exit_reason>>
    /\ UNCHANGED <<sink, report, attempts, signal_at, exit_status>>

\* send_alert returns (delivered, or failed and logged), then the assignment
\* self.last_alert_time[m] = current_time
SendDone(ok) ==
    /\ pc = "send"
    /\ LET m == MetricOrder[idx] IN
       /\ delivery' = [delivery EXCEPT ![m] = IF ok THEN "sent" ELSE "failed"]
       /\ log' = log \cup {IF ok THEN "Alert sent" ELSE "Failed to send alert"}
       /\ last_alert_time' = [last_alert_time EXCEPT ![m] = current_time]
    /\ pc' = AfterBlock(idx)
    /\ idx' = IF idx < Len(MetricOrder) THEN idx + 1 ELSE idx
    /\ UNCHANGED <<inputs, ever_breached, thresholds, email_config, interval,
                   alert_cooldown, now, usage,
                   current_time, tick, reported, tick_start_last, exit_reason>>
    /\ UNCHANGED <<sink, report, attempts, signal_at, exit_status>>

\* time.sleep(monitor.interval) returns and the next iteration begins
SleepOk ==
    /\ pc = "sleep"
    /\ ~SleepRaises(interval)
    /\ tick < MaxTicks
    /\ now' = now + interval
    /\ tick' = tick + 1
    /\ pc' = "sample"
    /\ usage' = NoUsage
    /\ current_time' = NoTime
    /\ idx' = 1
    /\ reported' = FALSE
    /\ delivery' = NoDelivery
    /\ tick_start_last' = last_alert_time
    /\ log' = {}
    /\ ever_breached' = ever_breached \cup BreachedNow
    /\ UNCHANGED <<thresholds, email_config, interval, alert_cooldown, last_alert_time,
                   exit_reason, inputs>>
    /\ report' = NoReport
    /\ attempts' = NoAttempts
    /\ UNCHANGED <<sink, signal_at, exit_status>>

\* time.sleep raises: not inside check_resources' try, so it leaves the loop and
\* is caught by main's except Exception
SleepError ==
    /\ pc = "sleep"
    /\ SleepRaises(interval)
    /\ pc' = "stopped"
    /\ exit_reason' = "error"
    /\ log' = log \cup {"Monitoring stopped due to error"}
    /\ UNCHANGED <<inputs, ever_breached, thresholds, email_config, interval,
                   alert_cooldown, last_alert_time,
                   now, usage, current_time, idx, tick, reported, delivery,
                   tick_start_last>>
    /\ console_file' = FinallyConsole
    /\ output_file' = FinallyFile
    /\ exit_status' = ExitSuccess
    /\ UNCHANGED <<report, attempts, signal_at>>

\* a KeyboardInterrupt that the handler of check_resources catches like an
\* Exception when it arrives inside a tick
InterruptCaughtInTick ==
    /\ pc \in {"sample", "report", "evaluate", "send", "sleep"}
    /\ signal_at' = pc
    /\ IF pc = "sleep"
       THEN /\ pc' = "stopped"
            /\ exit_reason' = "interrupted"
            /\ exit_status' = ExitSuccess
            /\ log' = log \cup {"Monitoring stopped by user"}
            /\ console_file' = FinallyConsole
            /\ output_file' = FinallyFile
       ELSE /\ pc' = "sleep"
            /\ log' = log \cup {"Error in check_resources"}
            /\ UNCHANGED <<exit_reason, exit_status, sink>>
    /\ UNCHANGED <<inputs, ever_breached, thresholds, email_config, interval,
                   alert_cooldown, last_alert_time,
                   now, usage, current_time, idx, tick, reported, delivery,
                   tick_start_last, report, attempts>>

\* a KeyboardInterrupt that leaves the loop without the finally clause
InterruptNoFinally ==
    /\ pc \in {"sample", "report", "evaluate", "send", "sleep"}
    /\ pc' = "stopped"
    /\ exit_reason' = "interrupted"
    /\ log' = log \cup {"Monitoring stopped by user"}
    /\ signal_at' = pc
    /\ exit_status' = ExitSuccess
    /\ UNCHANGED <<inputs, ever_breached, thresholds, email_config, interval,
                   alert_cooldown, last_alert_time,
                   now, usage, current_time, idx, tick, reported, delivery,
                   tick_start_last, report, attempts, sink>>

\* KeyboardInterrupt: not an Exception, so no handler of the tick catches it
Interrupt ==
    /\ pc \in {"sample", "report", "evaluate", "send", "sleep"}
    /\ pc' = "stopped"
    /\ exit_reason' = "interrupted"
    /\ log' = log \cup {"Monitoring stopped by user"}
    /\ UNCHANGED <<inputs, ever_breached, thresholds, email_config, interval,
                   alert_cooldown, last_alert_time,
                   now, usage, current_time, idx, tick, reported, delivery,
                   tick_start_last>>
    /\ console_file' = FinallyConsole
    /\ output_file' = FinallyFile
    /\ signal_at' = pc
    /\ exit_status' = ExitSuccess
    /\ UNCHANGED <<report, attempts>>

Next ==
    \/ Construct
    \/ \E c \in Percent, m \in Percent, d \in Percent : SampleOk(c, m, d)
    \/ SampleFail
    \/ \E gap \in 0..MaxGap : ReportOk(gap)
    \/ ReportFail
    \/ Evaluate
    \/ \E ok \in BOOLEAN : SendDone(ok)
    \/ SleepOk
    \/ SleepError
    \/ Interrupt

Spec == Init /\ [][Next]_vars

\* ------------------------------------------------------------- properties

\* an alert for m was attempted in this tick (send_alert was called)
Attempted(m) == delivery[m] # "none"

\* the send_alert call for m has returned in this tick
Returned(m) == delivery[m] \in {"sent", "failed"}

\* the tick has run to the end of check_resources
TickDone == pc = "sleep"

\* check_resources got past sampling and reporting in this tick
Evaluated == usage # NoUsage /\ reported

\* seconds between the tick's clock reading and the last alert recorded before the tick
Elapsed(m) == current_time - tick_start_last[m]

\* C1: an alert for a metric is attempted only when strictly more than
\* alert_cooldown seconds have passed since the last alert recorded for that
\* metric; a breach at an elapsed time of at most alert_cooldown attempts none.
C1_CooldownSeparatesAlerts ==
    \A m \in Metrics :
        /\ Attempted(m) => Elapsed(m) > alert_cooldown
        /\ (Evaluated /\ Breached(usage, thresholds, m) /\ Elapsed(m) <= alert_cooldown)
               => ~Attempted(m)

\* C1 witness: a finished tick with a breach exactly alert_cooldown seconds
\* after an earlier alert, and no attempt
C1_Witness ==
    \E m \in Metrics :
        /\ TickDone /\ Evaluated
        /\ Breached(usage, thresholds, m)
        /\ tick_start_last[m] # DatetimeMin
        /\ Elapsed(m) = alert_cooldown
        /\ ~Attempted(m)

\* C2: an alert is attempted only for a sampled value strictly above the
\* threshold; a value equal to or below it causes no attempt and leaves the
\* metric's last-alert time as it was.
C2_OnlyStrictBreachAlerts ==
    \A m \in Metrics :
        /\ Attempted(m) => (usage # NoUsage /\ ValueOf(usage, m) > thresholds[m])
        /\ (usage # NoUsage /\ ValueOf(usage, m) <= thresholds[m])
               => (~Attempted(m) /\ last_alert_time[m] = tick_start_last[m])

\* C2 witness: a finished tick whose value equals the threshold, with the
\* cooldown long past, and no attempt
C2_Witness ==
    \E m \in Metrics :
        /\ TickDone /\ Evaluated
        /\ ValueOf(usage, m) = thresholds[m]
        /\ Elapsed(m) > alert_cooldown
        /\ ~Attempted(m)

\* the sample of this tick is the first one after startup with m in breach
FirstBreach(m) == m \in BreachedNow /\ m \notin ever_breached

C4_BreachPastCooldownAlerts ==
    \A m \in Metrics :
        (/\ TickDone /\ Evaluated
         /\ Breached(usage, thresholds, m)
         /\ Elapsed(m) > alert_cooldown)
            => Returned(m)

\* C4 witness: a sustained breach alerted again after the window
C4_Witness ==
    \E m \in Metrics :
        /\ TickDone /\ Evaluated
        /\ m \in ever_breached
        /\ tick_start_last[m] # DatetimeMin
        /\ Breached(usage, thresholds, m)
        /\ alert_cooldown > 0
        /\ Elapsed(m) > alert_cooldown
        /\ Returned(m)

\* C5: a metric's last-alert time differs from its value at the start of the
\* tick only if an alert for it was attempted in the tick, and at the end of
\* the tick it differs for every metric with an attempt, delivered or not.
C5_RecordedIffAttempted ==
    \A m \in Metrics :
        /\ last_alert_time[m] # tick_start_last[m] => Returned(m)
        /\ TickDone => (Attempted(m) <=> last_alert_time[m] # tick_start_last[m])

\* C5 witness: a finished tick with a failed delivery and the time recorded,
\* next to a metric without attempt and with its time unchanged
C5_Witness ==
    \E m, n \in Metrics :
        /\ TickDone
        /\ delivery[m] = "failed"
        /\ last_alert_time[m] # tick_start_last[m]
        /\ delivery[n] = "none"
        /\ last_alert_time[n] = tick_start_last[n]

\* the loop of main was entered
LoopStarted == tick >= 1

\* the step ends the process by KeyboardInterrupt
Interrupted == pc' = "stopped" /\ exit_reason' = "interrupted"

\* C6: when send_alert fails on an eligible breach the failure is logged and
\* the metric's last-alert time is set in that tick, and the loop goes on to
\* sleep and to the next tick.
C6_NotifierFailureKeepsLoop ==
    /\ [](\A m \in Metrics :
            delivery[m] = "failed"
                => (/\ "Failed to send alert" \in log
                    /\ last_alert_time[m] = current_time
                    /\ ~CooldownPassed(current_time, last_alert_time[m], alert_cooldown)))
    /\ [][(TickDone /\ \E m \in Metrics : delivery[m] = "failed")
            => (pc' = "sample" \/ Interrupted)]_vars

\* the tick's call of get_resource_usage raised
SampleFailed == usage = NoUsage /\ "Failed to get resource usage" \in log

\* C7: a tick whose sampling fails prints no report, evaluates nothing,
\* attempts no alert and leaves every last-alert time unchanged; the error is
\* logged, the loop sleeps for the interval and samples again.
C7_SampleFailureSkipsTick ==
    /\ [](SampleFailed
            => (/\ ~reported
                /\ \A m \in Metrics : ~Attempted(m)
                /\ last_alert_time = tick_start_last
                /\ "Error in check_resources" \in log))
    /\ [][(TickDone /\ SampleFailed)
            => ((pc' = "sample" /\ now' = now + interval) \/ Interrupted)]_vars

\* C8: once the loop has started, the process stops only by external
\* interruption; no error of a tick's steps, sleeping included, ends the loop.
C8_OnlyInterruptionStops ==
    (pc = "stopped" /\ LoopStarted) => exit_reason = "interrupted"

\* C9 as stated: the last-alert time recorded by an attempt equals the
\* timestamp of the tick's sample.
C9_RecordedAtSampleTimestamp ==
    \A m \in Metrics : Returned(m) => last_alert_time[m] = usage.timestamp

\* C9 amended: the last-alert time recorded by an attempt equals current_time,
\* the clock reading taken after the tick's report was printed, which is not
\* earlier than the sample's timestamp; the cooldown comparison of the tick is
\* made against that same current_time.
C9_RecordedAtCurrentTime ==
    \A m \in Metrics :
        /\ Returned(m)
              => (last_alert_time[m] = current_time /\ current_time >= usage.timestamp)
        /\ Attempted(m) => current_time - tick_start_last[m] > alert_cooldown

\* C9 witness: an alert recorded at a current_time later than the sample's
\* timestamp, where the timestamp itself was still inside the window
C9_Witness ==
    \E m \in Metrics :
        /\ Returned(m)
        /\ last_alert_time[m] = current_time
        /\ current_time > usage.timestamp
        /\ usage.timestamp - tick_start_last[m] <= alert_cooldown

\* the configuration input is missing or malformed
Malformed(file) ==
    \/ file.kind # "parsed"
    \/ ~({"thresholds", "email"} \subseteq DOMAIN file.doc)

\* C10: with a missing or malformed configuration input the monitor starts its
\* loop on the built-in defaults (thresholds 80, interval 300 unless overridden
\* on the command line, alert_cooldown 3600).
C10_ConfigErrorNeverFatal ==
    (pc # "new" /\ Malformed(config_file) /\ args_output # "unwritable")
        => (/\ LoopStarted
            /\ thresholds = DefaultThresholds
            /\ alert_cooldown = DefaultCooldown
            /\ interval = OverrideInterval(DefaultInterval, args_interval))

\* C11: the process ends only by external interruption, logged and with exit
\* status 0, or by an unrecoverable startup fault, logged and with a non-zero
\* exit status.
C11_ExitStatusByCause ==
    pc = "stopped"
        => \/ /\ exit_reason = "interrupted"
              /\ "Monitoring stopped by user" \in log
              /\ exit_status = 0
           \/ /\ exit_reason = "error"
              /\ ~LoopStarted
              /\ "Monitoring stopped due to error" \in log
              /\ exit_status # NoStatus
              /\ exit_status # 0

\* C12: the report of a tick marks a metric ALERT exactly when the alerting
\* logic of that tick treats it as breached, and OK otherwise; every alert
\* attempt is for a metric the report marks ALERT.
C12_ReportAgreesWithAlerting ==
    \A m \in Metrics :
        /\ report # NoReport
              => (/\ report.status[m] \in {"ALERT", "OK"}
                  /\ report.status[m] = "ALERT" <=> m \in BreachedNow)
        /\ Attempted(m) => report.status[m] = "ALERT"
        /\ (TickDone /\ report.status[m] = "ALERT" /\ Elapsed(m) > alert_cooldown)
              => Attempted(m)

\* C12 witness: a finished tick with one metric marked ALERT and alerted and
\* another, exactly at its threshold, marked OK and not alerted
C12_Witness ==
    \E m, n \in Metrics :
        /\ TickDone
        /\ report.status[m] = "ALERT" /\ Attempted(m)
        /\ report.status[n] = "OK" /\ ~Attempted(n)
        /\ ValueOf(usage, n) = thresholds[n]

\* a KeyboardInterrupt has been delivered
StopSignalled == signal_at # "none"

\* C13: a stop signal, whether it arrives during the sleep or in the middle of
\* a tick, ends the loop and is logged; the step that delivers it and every
\* step after it take no sample, print no report and attempt no alert.
C13_StopSignalEndsLoop ==
    /\ [](StopSignalled
            => (/\ pc = "stopped"
                /\ exit_reason = "interrupted"
                /\ "Monitoring stopped by user" \in log))
    /\ [][(StopSignalled \/ StopSignalled')
            => UNCHANGED <<usage, report, reported, delivery, attempts,
                           last_alert_time, tick>>]_vars

\* C13 witness: the loop stopped by a signal that arrived during the sleep
\* after a finished tick
C13_Witness ==
    /\ signal_at = "sleep"
    /\ pc = "stopped"
    /\ reported
    /\ "Monitoring stopped by user" \in log

\* C14: within a tick the report is printed after the sample and before any
\* alert attempt, alerts are attempted in the order cpu, memory, disk on the
\* sample of the same tick, and the sleep begins only when every attempt of
\* the tick has returned.
C14_TickOrder ==
    /\ reported => (usage # NoUsage /\ report # NoReport)
    /\ \A m \in Metrics :
          Attempted(m)
             => (/\ reported
                 /\ ValueOf(usage, m) > thresholds[m]
                 /\ usage.timestamp <= current_time
                 /\ \A n \in Metrics : usage.timestamp > tick_start_last[n])
    /\ delivery["cpu"] = "attempting"
          => (delivery["memory"] = "none" /\ delivery["disk"] = "none")
    /\ delivery["memory"] = "attempting" => delivery["disk"] = "none"
    /\ TickDone => \A m \in Metrics : delivery[m] # "attempting"

\* C14 witness: the disk alert under way after the cpu and memory alerts of
\* the same tick have returned
C14_Witness ==
    /\ pc = "send"
    /\ reported
    /\ Returned("cpu") /\ Returned("memory")
    /\ delivery["disk"] = "attempting"

\* C15: send_alert is called at most once per metric in a tick, however far
\* the value is above the threshold, and a failed call is not repeated before
\* the next tick.
C15_OneAttemptPerTick ==
    /\ [](\A m \in Metrics :
            /\ attempts[m] <= 1
            /\ Attempted(m) <=> attempts[m] = 1)
    /\ [][\A m \in Metrics :
            delivery[m] = "failed"
                => (tick' # tick \/ (delivery'[m] = "failed" /\ attempts'[m] = attempts[m]))]_vars

\* C15 witness: a finished tick with a value more than one point above the
\* threshold, one call of send_alert for it, and that call failed
C15_Witness ==
    \E m \in Metrics :
        /\ TickDone
        /\ usage # NoUsage
        /\ ValueOf(usage, m) > thresholds[m] + 1
        /\ delivery[m] = "failed"
        /\ attempts[m] = 1

\* C16: once the loop runs, the interval is the --interval override whenever
\* one is supplied, otherwise the interval of the configuration, otherwise
\* 300; the cooldown window is the configured alert_cooldown, otherwise 3600;
\* and the sleep between two ticks lasts that interval.
C16_ResolvedIntervalAndCooldown ==
    /\ [](LoopStarted
            => LET config == load_config(config_file) IN
               /\ interval = IF args_interval # NoArg
                              THEN args_interval
                              ELSE Get(config, "interval", DefaultInterval)
               /\ alert_cooldown = Get(config, "alert_cooldown", DefaultCooldown))
    /\ [][tick' = tick + 1 /\ LoopStarted => now' = now + interval]_vars

\* C17: at the end of a tick every metric that was in breach and past its
\* cooldown has had its alert attempt and has the tick's time recorded as its
\* last-alert time, also when the attempt for an earlier metric failed.
C17_AllEligibleAlerted ==
    (TickDone /\ Evaluated)
        => \A m \in Metrics :
              (Breached(usage, thresholds, m) /\ Elapsed(m) > alert_cooldown)
                  => (/\ Returned(m)
                      /\ attempts[m] = 1
                      /\ last_alert_time[m] = current_time)

\* C17 witness: the cpu alert failed, and the memory and disk alerts of the
\* same tick were still attempted and recorded
C17_Witness ==
    /\ TickDone
    /\ delivery["cpu"] = "failed"
    /\ Returned("memory") /\ Returned("disk")
    /\ \A m \in Metrics : last_alert_time[m] = current_time

\* C18: a step changes the last-alert time of a metric only when that
\* metric's alert attempt returns, and then leaves the other two alone; no
\* step of the loop changes thresholds, interval or cooldown window; a tick
\* without attempt ends with all three last-alert times as they began.
C18_CooldownStatePerMetric ==
    /\ [][\A m \in Metrics :
            last_alert_time'[m] # last_alert_time[m]
                => (/\ delivery[m] = "attempting"
                    /\ \A n \in Metrics \ {m} :
                          last_alert_time'[n] = last_alert_time[n])]_vars
    /\ [][LoopStarted => UNCHANGED <<thresholds, interval, alert_cooldown>>]_vars
    /\ []((TickDone /\ \A m \in Metrics : ~Attempted(m))
            => last_alert_time = tick_start_last)

\* C18 witness: a finished tick in which one metric was alerted while another,
\* alerted in an earlier tick, kept its last-alert time
C18_Witness ==
    \E m, n \in Metrics :
        /\ TickDone
        /\ Returned(m) /\ last_alert_time[m] = current_time
        /\ ~Attempted(n)
        /\ last_alert_time[n] # DatetimeMin
        /\ last_alert_time[n] = tick_start_last[n]

\* C19: with the clock never running backwards, every last-alert time is the
\* sentinel or a clock reading not later than the current time; it changes
\* only to the current_time of a tick in which that metric's alert was
\* attempted, and never to an earlier value.
C19_LastAlertTimeIsPastTick ==
    /\ [][now' >= now]_vars
    /\ [](\A m \in Metrics :
            \/ last_alert_time[m] = DatetimeMin
            \/ (StartTime <= last_alert_time[m] /\ last_alert_time[m] <= now))
    /\ [][\A m \in Metrics :
            /\ last_alert_time'[m] >= last_alert_time[m]
            /\ last_alert_time'[m] # last_alert_time[m]
                  => (/\ delivery[m] = "attempting"
                      /\ last_alert_time'[m] = current_time
                      /\ current_time <= now)]_vars

\* C19 witness: in a later tick, one metric carries the time of an alert of an
\* earlier tick, another the time of this tick, a third the sentinel
C19_Witness ==
    \E m, n, k \in Metrics :
        /\ tick > 1 /\ TickDone
        /\ last_alert_time[m] # DatetimeMin /\ last_alert_time[m] < current_time
        /\ Returned(n) /\ last_alert_time[n] = current_time
        /\ last_alert_time[k] = DatetimeMin

\* output redirection is active: args.output was given and opened
Redirected == args_output = "writable" /\ LoopStarted

\* C20: with output redirection active, however the loop ends the console has
\* its original stream back and the redirect file is closed; reports go to the
\* redirect file while it is open and none is written once it is closed.
C20_RedirectRestoredAndClosed ==
    /\ []((Redirected /\ pc = "stopped")
            => (console_file = "stdout" /\ output_file = "closed"))
    /\ []((Redirected /\ pc # "stopped")
            => (console_file = "output_file" /\ output_file = "open"))
    /\ []((Redirected /\ report # NoReport) => report.sink = "output_file")
    /\ [][output_file = "closed" => UNCHANGED <<report, reported, sink>>]_vars

\* C20 witness: the loop left by an error of time.sleep after a report went
\* to the redirect file, the stream restored and the file closed
C20_Witness ==
    /\ Redirected
    /\ pc = "stopped" /\ exit_reason = "error"
    /\ report.sink = "output_file"
    /\ console_file = "stdout" /\ output_file = "closed"

TypeOK ==
    /\ pc \in {"new", "sample", "report", "evaluate", "send", "sleep", "stopped"}
    /\ idx \in 1..3
    /\ tick \in 0..MaxTicks
    /\ exit_reason \in {"running", "interrupted", "error"}
    /\ console_file \in {"stdout", "output_file"}
    /\ output_file \in {"unopened", "open", "closed"}
    /\ exit_status \in {NoStatus, ExitSuccess}
    /\ attempts \in [Metrics -> 0..1]
    /\ signal_at \in {"none", "sample", "report", "evaluate", "send", "sleep"}
====
